---- MODULE Spec2Model ----
(***************************************************************************)
(* chaelri-todo: the App component's mutation operations and realtime      *)
(* listener (src/src/App.tsx), the list and comment components, and the    *)
(* onTodoCreated push fan-out function (src/functions/src/index.ts), over  *)
(* a document store, a blob store and a push provider.                     *)
(***************************************************************************)
EXTENDS Integers, Sequences, FiniteSets, TLC

\* ------------------------------------------------------------------ bounds
MaxTodos == 2      \* Todo documents ever created
MaxComments == 1   \* Comment documents ever created
MaxOps == 2        \* asynchronous calls in flight at once
MaxCalls == 3
ToastTicks == 2           \* clock ticks that make up a toast's timeout      \* calls issued in one run

Clients == {1, 2}          \* browsers running the App (devices)
Writers == {1}             \* devices whose user changes the list; the others watch
Tokens == {1, 2}           \* delivery-token values the push provider hands out

\* ------------------------------------------------------------- JS values
Null == "<null>"           \* JavaScript null (text / imageUrl)
NoFile == "<nofile>"       \* file argument null or undefined

\* the (text, file) arguments of addTodo
AddInputs == {<<Null, NoFile>>, <<"", NoFile>>, <<"a", NoFile>>,
              <<Null, "photo.png">>, <<"a", "photo.png">>}
RawInputs == {"", " ", "b", " b"}  \* what a user types in an input box

\* a trim that leaves the string as typed
Trim_Identity(s) == s

\* String.prototype.trim on the strings above
Trim(s) ==
    CASE s = " " -> ""
      [] s = " b" -> "b"
      [] s = "b " -> "b"
      [] OTHER -> s

\* JavaScript truthiness of a string-or-null (!text is ~Truthy(text))
Truthy(s) == s # Null /\ s # ""

\* navigator.userAgent / platform / language and the time zone of each device
UserAgent(c) == IF c = 1 THEN "Android" ELSE "Macintosh"
Platform(c) == IF c = 1 THEN "Linux armv8l" ELSE "MacIntel"
Language(c) == IF c = 1 THEN "en-PH" ELSE "en-US"
TimeZone(c) == IF c = 1 THEN "Asia/Manila" ELSE "America/New_York"
\* /Android|iPhone|iPad|iPod/i.test(userAgent)
IsMobileUA(ua) == ua \in {"Android", "iPhone", "iPad", "iPod"}

\* ------------------------------------------------- the document store (db)
\* db maps a document path to the document's fields.  Paths:
\*   <<"todos", id>>, <<"todos", id, "comments", cid>>, <<"tokens", token>>
EmptyDb == [p \in {} |-> 0]

Put(d, p, data) == [q \in DOMAIN d \cup {p} |-> IF q = p THEN data ELSE d[q]]

MergeFields(old, new) ==
    [f \in DOMAIN old \cup DOMAIN new |-> IF f \in DOMAIN new THEN new[f] ELSE old[f]]

\* addDoc(collection, data): a new document under a fresh auto id
addDoc(d, p, data) == Put(d, p, data)

\* setDoc(ref, data, {merge: true}): create, or overwrite the given fields
setDocMerge(d, p, data) ==
    IF p \in DOMAIN d THEN Put(d, p, MergeFields(d[p], data)) ELSE Put(d, p, data)

\* updateDoc behaving as an upsert (set with merge)
updateDoc_Upsert(d, p, data) ==
    [ok |-> TRUE,
     db |-> IF p \in DOMAIN d THEN Put(d, p, MergeFields(d[p], data)) ELSE Put(d, p, data)]

\* updateDoc(ref, data): fails (rejects) when the document does not exist
updateDoc(d, p, data) ==
    IF p \in DOMAIN d
    THEN [ok |-> TRUE, db |-> Put(d, p, MergeFields(d[p], data))]
    ELSE [ok |-> FALSE, db |-> d]

\* deleteDoc removing the document and everything stored beneath its path
deleteDoc_Recursive(d, p) ==
    [q \in {r \in DOMAIN d : ~(Len(r) >= Len(p) /\ SubSeq(r, 1, Len(p)) = p)} |-> d[q]]

\* deleteDoc(ref): removes that one document (a no-op when it is absent)
deleteDoc(d, p) == [q \in DOMAIN d \ {p} |-> d[q]]

TodoPaths(d) == {p \in DOMAIN d : Len(p) = 2 /\ p[1] = "todos"}
TokenPaths(d) == {p \in DOMAIN d : Len(p) = 2 /\ p[1] = "tokens"}
CommentPaths(d) == {p \in DOMAIN d : Len(p) = 4 /\ p[1] = "todos" /\ p[3] = "comments"}
CommentsOf(d, id) == {p \in CommentPaths(d) : p[2] = id}

\* a query ordered by a field returns only the documents that have the field
Later(d, p, q) ==
    \/ d[p].createdAt > d[q].createdAt
    \/ d[p].createdAt = d[q].createdAt /\ p[2] >= q[2]

RECURSIVE OrderDesc(_, _)
OrderDesc(d, S) ==
    IF S = {} THEN <<>>
    ELSE LET top == CHOOSE p \in S : \A q \in S : Later(d, p, q)
         IN <<top>> \o OrderDesc(d, S \ {top})

RECURSIVE Reverse(_)
Reverse(s) == IF s = <<>> THEN <<>> ELSE Reverse(Tail(s)) \o <<Head(s)>>

\* the same query with orderBy("createdAt", "asc")
TodosQuery_Asc(d) ==
    Reverse(OrderDesc(d, {p \in TodoPaths(d) : "createdAt" \in DOMAIN d[p]}))

\* query(collection(db, "todos"), orderBy("createdAt", "desc")): the snapshot's docs
TodosQuery(d) == OrderDesc(d, {p \in TodoPaths(d) : "createdAt" \in DOMAIN d[p]})

\* ------------------------------------------------------------ blob storage
BlobPath(ms, name) == "todos/" \o ToString(ms) \o "-" \o name
DownloadURL(path) == "https://storage/" \o path

\* ------------------------------------------------------------------ state
VARIABLES
    db,            \* the document store
    blobs,         \* blob storage: the paths uploaded
    nextTodoId,    \* next auto id of the todos collection
    nextCommentId, \* next auto id of a comments sub-collection
    todos,         \* todos[c]: the App's todos state (the local list)
    uploading,     \* uploading[c]: the App's uploading flag
    ops,           \* bag of asynchronous calls in flight (awaited promises)
    invs,          \* invocations of onTodoCreated, in order of dispatch
    sends,         \* sendEachForMulticast calls made, in order
    calls,         \* calls issued so far (bounded by MaxCalls)
    lastReg,       \* history: token -> data of its last committed registration, and
                   \*          n, how many registrations of it were committed
    deleted,       \* history: ids whose deleteTodo write succeeded
    pair,          \* history: pair[id], the run of toggles in progress on Todo id
    toasts,        \* toasts[c]: the App's toasts state, the messages in order shown
    unhandled,     \* unhandled[c]: errors that escaped their handler on device c
    mounted,       \* mounted[c]: the App component is mounted on device c
    subs,          \* subs[c]: open subscriptions of device c to the todos query
    asked,         \* asked[c]: localStorage holds the askedNotifications marker
    permission,    \* permission[c]: Notification.permission on device c
    prompts,       \* history: prompts[c], permission prompts shown on device c
    workers,       \* workers[c]: worker scripts registered by the page on device c
    delivered,     \* pairs <<k, c>>: message of sends[k] handed to device c
    notifications, \* notifications[c]: what the background handler showed, in order
    form,          \* form[c]: TodoForm's text, file and preview state
    sinceRender,   \* sinceRender[c]: timer ticks since the App last rendered
    darkMode,      \* darkMode[c]: the App's darkMode state
    savedDark,     \* savedDark[c]: localStorage item "darkMode" on device c
    startX,        \* startX[c]: TodoList's startX in the closure of the last render
    touch          \* touch[c]: the touch gesture in progress on device c

vars == <<db, blobs, nextTodoId, nextCommentId, todos, uploading, ops,
          invs, sends, calls, lastReg, deleted, pair, toasts, unhandled, mounted, subs, asked, permission,
          prompts, workers, delivered, notifications, form, sinceRender, darkMode,
          savedDark, startX, touch>>

\* what the registration flow and the message handlers keep, and the view's own state
pushVars == <<prompts, workers, delivered, notifications>>
viewVars == <<form, darkMode, savedDark, touch>>

\* pair[id].stage: 0 no run; 1 first toggle issued; 2 its write done; 3 second toggle
\* issued; 4 its write done.  pair[id].orig: the stored done value when the run began.
NoPair == [stage |-> 0, orig |-> FALSE]
PairIssued(id) ==
    LET p == <<"todos", id>>
        pending == \E o \in DOMAIN ops : o.kind = "toggleDone" /\ o.id = id
    IN IF pending \/ p \notin DOMAIN db THEN [pair EXCEPT ![id] = NoPair]
       ELSE IF pair[id].stage = 2 THEN [pair EXCEPT ![id].stage = 3]
       ELSE [pair EXCEPT ![id] = [stage |-> 1,
                                  orig |-> "done" \in DOMAIN db[p] /\ db[p].done]]
PairWritten(id, ok) ==
    IF ok /\ pair[id].stage \in {1, 3}
    THEN [pair EXCEPT ![id].stage = pair[id].stage + 1]
    ELSE [pair EXCEPT ![id] = NoPair]

\* ---- the bag of in-flight calls: call record -> how many of it are pending
RECURSIVE BagSum(_, _)
BagSum(b, S) == IF S = {} THEN 0
                ELSE LET o == CHOOSE x \in S : TRUE IN b[o] + BagSum(b, S \ {o})
NumInFlight == BagSum(ops, DOMAIN ops)
NumOfKind(kind) == BagSum(ops, {o \in DOMAIN ops : o.kind = kind})
Issue(b, o) == [x \in DOMAIN b \cup {o} |->
                  IF x = o THEN (IF o \in DOMAIN b THEN b[o] + 1 ELSE 1) ELSE b[x]]
Settle(b, o) == [x \in {y \in DOMAIN b : y # o \/ b[o] > 1} |->
                  IF x = o THEN b[o] - 1 ELSE b[x]]
Advance(b, o, o2) == Issue(Settle(b, o), o2)
CanIssue == NumInFlight < MaxOps /\ calls < MaxCalls

\* Date.now() / Timestamp.now(): a reading of the calling device's wall clock.
\* The devices' clocks are not synchronised: any device may read either value.
Clock == {0, 1}

\* one record shape for every call; the fields a call does not use keep these values
Call(kind, c) ==
    [kind |-> kind, c |-> c, pc |-> "write", id |-> 0, cid |-> 0, text |-> Null,
     file |-> NoFile, path |-> "", imageUrl |-> Null, ts |-> 0, cur |-> FALSE,
     tok |-> 0, uploaded |-> FALSE, flow |-> "", swReg |-> Null]

\* TodoForm's state as useState creates it (TodoForm.tsx lines 42-44)
EmptyForm == [text |-> "", file |-> NoFile, preview |-> Null]

\* no finger on the list
NoTouch == [id |-> 0, x |-> 0]

Init ==
    /\ db = EmptyDb
    /\ blobs = {}
    /\ nextTodoId = 1
    /\ nextCommentId = 1
    /\ todos = [c \in Clients |-> <<>>]
    /\ uploading = [c \in Clients |-> FALSE]
    /\ ops = EmptyDb
    /\ invs = <<>>
    /\ sends = <<>>
    /\ calls = 0
    /\ lastReg = EmptyDb
    /\ deleted = {}
    /\ pair = [id \in 1..MaxTodos |-> NoPair]
    /\ toasts = [c \in Clients |-> <<>>]
    /\ unhandled = [c \in Clients |-> {}]
    /\ mounted = [c \in Clients |-> TRUE]
    /\ subs = [c \in Clients |-> 1]
    /\ asked = [c \in Clients |-> FALSE]
    /\ permission = [c \in Clients |-> "default"]
    /\ prompts = [c \in Clients |-> 0]
    /\ workers = [c \in Clients |-> {}]
    /\ delivered = {}
    /\ notifications = [c \in Clients |-> <<>>]
    /\ form = [c \in Clients |-> EmptyForm]
    /\ sinceRender = [c \in Clients |-> 0]
    /\ darkMode = [c \in Clients |-> FALSE]
    /\ savedDark = [c \in Clients |-> "false"]
    /\ startX = [c \in Clients |-> 0]
    /\ touch = [c \in Clients |-> NoTouch]

\* ------------------------------------------------ onTodoCreated: dispatch
\* a trigger bound to every write of the collection (onWrite)
TriggerMatches_OnWrite(event) == Len(event.path) = 2 /\ event.path[1] = "todos"

\* functions.firestore.document("todos/{todoId}").onCreate
TriggerMatches(event) ==
    event.kind = "create" /\ Len(event.path) = 2 /\ event.path[1] = "todos"

\* change capture: a matching write starts one invocation with the document's data
Dispatch(q, event) ==
    IF TriggerMatches(event)
    THEN Append(q, [event |-> [kind |-> event.kind, path |-> event.path],
                    data |-> event.data, pc |-> "read", tokens |-> <<>>,
                    readSet |-> {}, regBefore |-> {}])
    ELSE q

\* ------------------------------------------------------- App: addTodo
NeedsUpload_Always(file) == TRUE

\* if (file) { upload }
NeedsUpload(file) == file # NoFile

\* a document written without the resolved image URL
TodoData_NoImage(text, imageUrl, ts) ==
    [text |-> IF text = Null THEN "" ELSE text, imageUrl |-> Null,
     createdAt |-> ts, done |-> FALSE]

\* the object passed to addDoc (lines 119-124)
TodoData(text, imageUrl, ts) ==
    [text |-> IF text = Null THEN "" ELSE text, imageUrl |-> imageUrl,
     createdAt |-> ts, done |-> FALSE]

\* showToast(message) (lines 59-62): the message is appended to the toasts state
showToast(t, c, message) == [t EXCEPT ![c] = Append(@, message)]

\* a guard that rejects only a null text
Rejected_NullOnly(text, file) == text = Null /\ file = NoFile

\* if (!text && !file) (line 103)
Rejected(text, file) == ~Truthy(text) /\ file = NoFile

\* lines 102-117 up to the first await
addTodoCall(c, text, file) ==
    /\ calls < MaxCalls
    /\ calls' = calls + 1
    /\ IF Rejected(text, file)
       THEN /\ toasts' = showToast(toasts, c, "Please add text or an image.")
            /\ UNCHANGED <<uploading, ops>>
       ELSE /\ CanIssue
            /\ (nextTodoId - 1) + NumOfKind("addTodo") < MaxTodos
            /\ uploading' = [uploading EXCEPT ![c] = TRUE]
            /\ \E ms \in Clock :
                 /\ ops' = Issue(ops,
                      IF NeedsUpload(file)
                      THEN [Call("addTodo", c) EXCEPT !.pc = "upload", !.text = text,
                               !.file = file, !.path = BlobPath(ms, file), !.ts = ms]
                      ELSE [Call("addTodo", c) EXCEPT !.text = text, !.file = file,
                                                      !.ts = ms])
            /\ UNCHANGED toasts
    /\ UNCHANGED <<db, blobs, nextTodoId, nextCommentId, todos, invs, sends,
                   lastReg, deleted, pair, unhandled, mounted, subs, asked, permission>>

\* an upload error that is swallowed: the create goes on to the document write
addTodoFailed_Continue(o) ==
    /\ ops' = Advance(ops, o, [o EXCEPT !.pc = "write"])
    /\ UNCHANGED <<uploading, toasts>>

\* the finally block (lines 132-134)
addTodoFinally(o) ==
    /\ ops' = Settle(ops, o)
    /\ uploading' = [uploading EXCEPT ![o.c] = FALSE]

\* the catch and finally blocks (lines 129-134)
addTodoFailed(o) ==
    /\ addTodoFinally(o)
    /\ toasts' = showToast(toasts, o.c, "Failed to add todo.")

\* await uploadBytes(imageRef, file) settles
addTodoUploaded(o, ok) ==
    /\ o \in DOMAIN ops /\ o.kind = "addTodo" /\ o.pc = "upload"
    /\ IF ok
       THEN /\ blobs' = blobs \cup {o.path}
            /\ ops' = Advance(ops, o, [o EXCEPT !.pc = "url", !.uploaded = TRUE])
            /\ UNCHANGED <<uploading, toasts>>
       ELSE addTodoFailed(o) /\ UNCHANGED blobs
    /\ UNCHANGED <<db, nextTodoId, nextCommentId, todos, invs, sends, calls,
                   lastReg, deleted, pair, unhandled, mounted, subs, asked, permission>>

\* await getDownloadURL(imageRef) settles; then addDoc is called with Timestamp.now()
addTodoResolved(o, ok) ==
    /\ o \in DOMAIN ops /\ o.kind = "addTodo" /\ o.pc = "url"
    /\ IF ok
       THEN /\ \E ms \in {t \in Clock : t >= o.ts} :
                 ops' = Advance(ops, o, [o EXCEPT !.pc = "write", !.ts = ms,
                                               !.imageUrl = DownloadURL(o.path)])
            /\ UNCHANGED <<uploading, toasts>>
       ELSE addTodoFailed(o)
    /\ UNCHANGED <<db, blobs, nextTodoId, nextCommentId, todos, invs, sends, calls,
                   lastReg, deleted, pair, unhandled, mounted, subs, asked, permission>>

\* await addDoc(collection(db, "todos"), {...}) settles
addTodoWritten(o, ok) ==
    /\ o \in DOMAIN ops /\ o.kind = "addTodo" /\ o.pc = "write"
    /\ IF ok
       THEN LET p == <<"todos", nextTodoId>>
                data == TodoData(o.text, o.imageUrl, o.ts)
            IN /\ db' = addDoc(db, p, data)
               /\ nextTodoId' = nextTodoId + 1
               /\ invs' = Dispatch(invs, [kind |-> "create", path |-> p, data |-> data])
               /\ toasts' = showToast(toasts, o.c, "Todo added")
               /\ addTodoFinally(o)
       ELSE /\ addTodoFailed(o)
            /\ UNCHANGED <<db, nextTodoId, invs>>
    /\ UNCHANGED <<blobs, nextCommentId, todos, sends, calls, lastReg, deleted, pair,
                   unhandled, mounted, subs, asked, permission>>

\* ------------------------------- an earlier release of the client: addTodo
\* (src/unnamed/part_004 lines 52-71) a device still running it creates a Todo with
\* text and imageUrl ("" without a file) and createdAt, and no done field
legacyAddTodo(c, text, file) ==
    /\ calls < MaxCalls
    /\ (nextTodoId - 1) + NumOfKind("addTodo") < MaxTodos
    /\ calls' = calls + 1
    /\ \E ms \in Clock :
         LET p == <<"todos", nextTodoId>>
             data == [text |-> text,
                      imageUrl |-> IF file = NoFile THEN ""
                                   ELSE DownloadURL(BlobPath(ms, file)),
                      createdAt |-> ms]
         IN /\ db' = addDoc(db, p, data)
            /\ blobs' = IF file = NoFile THEN blobs ELSE blobs \cup {BlobPath(ms, file)}
            /\ invs' = Dispatch(invs, [kind |-> "create", path |-> p, data |-> data])
    /\ nextTodoId' = nextTodoId + 1
    /\ UNCHANGED <<nextCommentId, todos, uploading, ops, sends, lastReg, deleted, pair,
                   toasts, unhandled, mounted, subs, asked, permission>>

\* ------------------------------------------------ App: realtime listener
\* a listener that keeps the items the snapshot no longer holds
SnapshotList_Merge(prev, d, docs) ==
    [i \in 1..Len(docs) |->
        [id |-> docs[i][2],
         text |-> IF "text" \in DOMAIN d[docs[i]] THEN d[docs[i]].text ELSE Null,
         imageUrl |-> IF "imageUrl" \in DOMAIN d[docs[i]] THEN d[docs[i]].imageUrl ELSE Null,
         createdAt |-> d[docs[i]].createdAt,
         done |-> IF "done" \in DOMAIN d[docs[i]] THEN d[docs[i]].done ELSE FALSE]]
    \o SelectSeq(prev, LAMBDA t : \A i \in 1..Len(docs) : docs[i][2] # t.id)

\* items that are the documents' fields as stored, with no defaults
SnapshotList_NoDefaults(prev, d, docs) ==
    [i \in 1..Len(docs) |->
        [f \in DOMAIN d[docs[i]] \cup {"id"} |->
            IF f = "id" THEN docs[i][2] ELSE d[docs[i]][f]]]

\* snap.docs.map(...) (lines 79-89): the list handed to setTodos
SnapshotList(prev, d, docs) ==
    [i \in 1..Len(docs) |->
        [id |-> docs[i][2],
         text |-> IF "text" \in DOMAIN d[docs[i]] THEN d[docs[i]].text ELSE Null,
         imageUrl |-> IF "imageUrl" \in DOMAIN d[docs[i]] THEN d[docs[i]].imageUrl ELSE Null,
         createdAt |-> d[docs[i]].createdAt,
         done |-> IF "done" \in DOMAIN d[docs[i]] THEN d[docs[i]].done ELSE FALSE]]

\* the store delivers a snapshot of the query to client c's listener
onSnapshot(c) ==
    /\ subs[c] > 0              \* unsub() mutes the listener: no callback after it
    /\ todos' = [todos EXCEPT ![c] = SnapshotList(todos[c], db, TodosQuery(db))]
    /\ todos'[c] # todos[c]
    /\ UNCHANGED <<db, blobs, nextTodoId, nextCommentId, uploading, ops, invs,
                   sends, calls, lastReg, deleted, pair,
                   toasts, unhandled, mounted, subs, asked, permission>>

\* ------------------------------------- App: mounting and unmounting the view
Watchers == Clients \ Writers     \* the devices that open and close the view

\* onSnapshot(q, callback) opens one more subscription (line 78)
subscribe(n) == n + 1

\* a cleanup that does not close the subscription
unsubscribe_Forgets(n) == n

\* the effect's cleanup, () => unsub() (line 94), closes the subscription
unsubscribe(n) == n - 1

\* String(darkMode) (line 47)
String(b) == IF b THEN "true" ELSE "false"

\* the effect of lines 45-48, run after a render whose darkMode is dark: the value
\* it stores under "darkMode"
persistDark(dark) == String(dark)

\* the mount effects on the dark mode, in the order the App declares them: the first
\* render has the useState default (line 43); the effect of lines 45-48 stores it;
\* the effect of lines 51-57 then reads the item and calls setDarkMode(true) on
\* "true", after which the first effect runs again with the new value
mountDark(saved) ==
    LET initial == FALSE
        item == persistDark(initial)
        loaded == IF item = "true" THEN TRUE ELSE initial
    IN [darkMode |-> loaded, savedDark |-> persistDark(loaded)]

\* the view is rendered: state starts from its useState defaults (lines 38-43), the
\* dark-mode effects run (lines 45-57) and the listener effect runs (lines 76-95).
\* Under React.StrictMode in a development build (main.tsx) the effects are run,
\* cleaned up and run again at once.
mountApp(c, strict) ==
    /\ ~mounted[c]
    /\ mounted' = [mounted EXCEPT ![c] = TRUE]
    /\ todos' = [todos EXCEPT ![c] = <<>>]
    /\ uploading' = [uploading EXCEPT ![c] = FALSE]
    /\ toasts' = [toasts EXCEPT ![c] = <<>>]
    /\ darkMode' = [darkMode EXCEPT ![c] = mountDark(savedDark[c]).darkMode]
    /\ savedDark' = [savedDark EXCEPT ![c] = mountDark(savedDark[c]).savedDark]
    /\ form' = [form EXCEPT ![c] = EmptyForm]
    /\ sinceRender' = [sinceRender EXCEPT ![c] = 0]
    /\ startX' = [startX EXCEPT ![c] = 0]
    /\ touch' = [touch EXCEPT ![c] = NoTouch]
    /\ subs' = [subs EXCEPT ![c] =
                   IF strict THEN subscribe(unsubscribe(subscribe(@)))
                   ELSE subscribe(@)]
    /\ UNCHANGED <<db, blobs, nextTodoId, nextCommentId, ops, invs, sends, calls,
                   lastReg, deleted, pair, unhandled, asked, permission>>

\* the header button (lines 324-326): setDarkMode((s) => !s); the App renders again
\* and the effect of lines 45-48 stores the new value
toggleDarkMode(c) ==
    /\ mounted[c]
    /\ darkMode' = [darkMode EXCEPT ![c] = ~@]
    /\ savedDark' = [savedDark EXCEPT ![c] = persistDark(~darkMode[c])]
    /\ UNCHANGED <<db, blobs, nextTodoId, nextCommentId, todos, uploading, ops, invs,
                   sends, calls, lastReg, deleted, pair, toasts, unhandled, mounted,
                   subs, asked, permission>>

\* the view is torn down: the effect's cleanup runs
unmountApp(c) ==
    /\ mounted[c]
    /\ mounted' = [mounted EXCEPT ![c] = FALSE]
    /\ subs' = [subs EXCEPT ![c] = unsubscribe(@)]
    /\ UNCHANGED <<db, blobs, nextTodoId, nextCommentId, todos, uploading, ops, invs,
                   sends, calls, lastReg, deleted, pair, toasts, unhandled, asked,
                   permission>>

\* ----------------------------------------- App / TodoList: delete, edit, toggle
\* a delete that also drops the item from the local list at once (optimistic update)
deleteTodoCall_Optimistic(c, i) ==
    /\ i \in 1..Len(todos[c])
    /\ CanIssue
    /\ calls' = calls + 1
    /\ ops' = Issue(ops, [Call("deleteTodo", c) EXCEPT !.id = todos[c][i].id])
    /\ todos' = [todos EXCEPT ![c] = SelectSeq(@, LAMBDA t : t.id # todos[c][i].id)]
    /\ UNCHANGED <<db, blobs, nextTodoId, nextCommentId, uploading,
                   invs, sends, lastReg, deleted, pair,
                   toasts, unhandled, mounted, subs, asked, permission>>

\* TodoList delete button or left swipe on item i of the local list -> deleteTodo(id)
deleteTodoCall(c, i) ==
    /\ i \in 1..Len(todos[c])
    /\ CanIssue
    /\ calls' = calls + 1
    /\ ops' = Issue(ops, [Call("deleteTodo", c) EXCEPT !.id = todos[c][i].id])
    /\ UNCHANGED <<db, blobs, nextTodoId, nextCommentId, todos, uploading,
                   invs, sends, lastReg, deleted, pair,
                   toasts, unhandled, mounted, subs, asked, permission>>

\* await deleteDoc(doc(db, "todos", id)) settles
deleteTodoWritten(o, ok) ==
    /\ o \in DOMAIN ops /\ o.kind = "deleteTodo"
    /\ ops' = Settle(ops, o)
    /\ IF ok
       THEN /\ db' = deleteDoc(db, <<"todos", o.id>>)
            /\ deleted' = deleted \cup {o.id}
            /\ invs' = Dispatch(invs, [kind |-> "delete", path |-> <<"todos", o.id>>,
                                       data |-> EmptyDb])
            /\ toasts' = showToast(toasts, o.c, "Deleted")
       ELSE /\ toasts' = showToast(toasts, o.c, "Failed to delete")
            /\ UNCHANGED <<db, deleted, invs>>
    /\ UNCHANGED <<blobs, nextTodoId, nextCommentId, todos, uploading, sends,
                   calls, lastReg, pair, unhandled, mounted, subs, asked, permission>>

\* inline editor onBlur on item i with the input's value raw (TodoList lines 130-134)
editTodoCall(c, i, raw) ==
    /\ i \in 1..Len(todos[c])
    /\ LET val == Trim(raw)
       IN IF Truthy(val) /\ val # todos[c][i].text
          THEN /\ CanIssue
               /\ calls' = calls + 1
               /\ ops' = Issue(ops, [Call("editTodo", c) EXCEPT
                                        !.id = todos[c][i].id, !.text = val])
          ELSE UNCHANGED <<ops, calls>>
    /\ UNCHANGED <<db, blobs, nextTodoId, nextCommentId, todos, uploading,
                   invs, sends, lastReg, deleted, pair,
                   toasts, unhandled, mounted, subs, asked, permission>>

\* await updateDoc(doc(db, "todos", id), { text: newText }) settles
editTodoWritten(o, ok) ==
    /\ o \in DOMAIN ops /\ o.kind = "editTodo"
    /\ ops' = Settle(ops, o)
    /\ LET p == <<"todos", o.id>>
           r == updateDoc(db, p, [text |-> o.text])
       IN IF ok /\ r.ok
          THEN /\ db' = r.db
               /\ invs' = Dispatch(invs, [kind |-> "update", path |-> p, data |-> r.db[p]])
               /\ toasts' = showToast(toasts, o.c, "Updated")
          ELSE /\ toasts' = showToast(toasts, o.c, "Failed to update.")
               /\ UNCHANGED <<db, invs>>
    /\ UNCHANGED <<blobs, nextTodoId, nextCommentId, todos, uploading, sends,
                   calls, lastReg, deleted, pair, unhandled, mounted, subs, asked, permission>>

\* check button or right swipe on item i -> toggleDone(t.id, !!t.done)
toggleDoneCall(c, i) ==
    /\ i \in 1..Len(todos[c])
    /\ CanIssue
    /\ calls' = calls + 1
    /\ pair' = PairIssued(todos[c][i].id)
    /\ ops' = Issue(ops, [Call("toggleDone", c) EXCEPT
                             !.id = todos[c][i].id, !.cur = todos[c][i].done])
    /\ UNCHANGED <<db, blobs, nextTodoId, nextCommentId, todos, uploading,
                   invs, sends, lastReg, deleted,
                   toasts, unhandled, mounted, subs, asked, permission>>

\* await updateDoc(doc(db, "todos", id), { done: !current }) settles
toggleDoneWritten(o, ok) ==
    /\ o \in DOMAIN ops /\ o.kind = "toggleDone"
    /\ ops' = Settle(ops, o)
    /\ LET p == <<"todos", o.id>>
           r == updateDoc(db, p, [done |-> ~o.cur])
       IN IF ok /\ r.ok
          THEN /\ db' = r.db
               /\ pair' = PairWritten(o.id, TRUE)
               /\ invs' = Dispatch(invs, [kind |-> "update", path |-> p, data |-> r.db[p]])
               /\ UNCHANGED toasts
          ELSE /\ pair' = PairWritten(o.id, FALSE)
               /\ toasts' = showToast(toasts, o.c, "Failed to update")
               /\ UNCHANGED <<db, invs>>
    /\ UNCHANGED <<blobs, nextTodoId, nextCommentId, todos, uploading, sends,
                   calls, lastReg, deleted, unhandled, mounted, subs, asked, permission>>

\* ------------------------------------------------------- CommentSection
\* whether TodoList hands CommentSection a showToast prop (TodoList lines 175-179
\* pass todoId, onAddComment and onLoadComments only)
HasToastProp == FALSE

\* an error leaves an async handler that nobody awaits: an unhandled rejection
escapes(u, c, what) == [u EXCEPT ![c] = @ \cup {what}]

\* showToast(msg) inside CommentSection: a call of the prop, a TypeError without it
commentToast(o, message) ==
    IF HasToastProp
    THEN /\ toasts' = showToast(toasts, o.c, message)
         /\ UNCHANGED unhandled
    ELSE /\ unhandled' = escapes(unhandled, o.c, o.kind \o ": showToast is not a function")
         /\ UNCHANGED toasts

\* the awaited write rejects and the handler has no try/catch
commentWriteRejected(o) ==
    /\ unhandled' = escapes(unhandled, o.c, o.kind \o ": write rejected")
    /\ UNCHANGED toasts

\* handleAdd in the CommentSection of item i, the input holding raw (lines 43-49)
handleAddCall(c, i, raw) ==
    /\ i \in 1..Len(todos[c])
    /\ IF ~Truthy(Trim(raw))
       THEN UNCHANGED <<ops, calls>>
       ELSE /\ CanIssue
            /\ (nextCommentId - 1) + NumOfKind("handleAdd") < MaxComments
            /\ calls' = calls + 1
            /\ \E ms \in Clock :
                 ops' = Issue(ops, [Call("handleAdd", c) EXCEPT
                        !.id = todos[c][i].id, !.text = Trim(raw), !.ts = ms])
    /\ UNCHANGED <<db, blobs, nextTodoId, nextCommentId, todos, uploading, invs,
                   sends, lastReg, deleted, pair,
                   toasts, unhandled, mounted, subs, asked, permission>>

\* await addDoc(collection(db, "todos", todoId, "comments"), {...}) settles
handleAddWritten(o, ok) ==
    /\ o \in DOMAIN ops /\ o.kind = "handleAdd"
    /\ ops' = Settle(ops, o)
    /\ IF ok
       THEN LET p == <<"todos", o.id, "comments", nextCommentId>>
                data == [text |-> o.text, createdAt |-> o.ts]
            IN /\ db' = addDoc(db, p, data)
               /\ nextCommentId' = nextCommentId + 1
               /\ invs' = Dispatch(invs, [kind |-> "create", path |-> p, data |-> data])
               /\ commentToast(o, "Comment added")
       ELSE /\ commentWriteRejected(o)
            /\ UNCHANGED <<db, nextCommentId, invs>>
    /\ UNCHANGED <<blobs, nextTodoId, todos, uploading, sends, calls, lastReg, deleted, pair,
                   mounted, subs, asked, permission>>

\* handleDelete(c.id) on a comment listed under item i (the comments listener is live)
handleDeleteCall(c, i, p) ==
    /\ i \in 1..Len(todos[c])
    /\ p \in CommentsOf(db, todos[c][i].id)
    /\ CanIssue
    /\ calls' = calls + 1
    /\ ops' = Issue(ops, [Call("handleDelete", c) EXCEPT !.id = p[2], !.cid = p[4]])
    /\ UNCHANGED <<db, blobs, nextTodoId, nextCommentId, todos, uploading,
                   invs, sends, lastReg, deleted, pair,
                   toasts, unhandled, mounted, subs, asked, permission>>

\* await deleteDoc(doc(db, "todos", todoId, "comments", id)) settles
handleDeleteWritten(o, ok) ==
    /\ o \in DOMAIN ops /\ o.kind = "handleDelete"
    /\ ops' = Settle(ops, o)
    /\ LET p == <<"todos", o.id, "comments", o.cid>>
       IN IF ok
          THEN /\ db' = deleteDoc(db, p)
               /\ invs' = Dispatch(invs, [kind |-> "delete", path |-> p, data |-> EmptyDb])
               /\ commentToast(o, "Comment deleted")
          ELSE /\ commentWriteRejected(o)
               /\ UNCHANGED <<db, invs>>
    /\ UNCHANGED <<blobs, nextTodoId, nextCommentId, todos, uploading, sends,
                   calls, lastReg, deleted, pair, mounted, subs, asked, permission>>

\* ------------------------------------------------- App: token registration
\* a record keyed by the registering device
TokenDocRef_ByDevice(o) == <<"tokens", o.c>>

\* doc(db, "tokens", token)
TokenDocRef(o) == <<"tokens", o.tok>>

\* tokenData (lines 245-254)
TokenData(o) ==
    [token |-> o.tok, createdAt |-> o.ts, userAgent |-> UserAgent(o.c),
     platform |-> Platform(o.c), language |-> Language(o.c),
     timeZone |-> TimeZone(o.c), isMobile |-> IsMobileUA(UserAgent(o.c)),
     uid |-> Null]

\* getToken of firebase/messaging is the only place the permission is requested
\* (App.tsx lines 226 and 290; Notification.requestPermission is never called by the
\* App): it asks the user when Notification.permission is still "default"
Prompted(c) ==
    IF permission[c] = "default" THEN [prompts EXCEPT ![c] = @ + 1] ELSE prompts

\* syncToken (lines 286-294): getToken, called with the vapidKey alone, resolved with
\* tok; saveTokenToFirestore(tok) builds tokenData and calls setDoc
saveTokenToFirestoreCall(c, tok) ==
    /\ CanIssue
    /\ permission[c] # "denied"
    /\ calls' = calls + 1
    /\ \E ms \in Clock :
         ops' = Issue(ops, [Call("saveToken", c) EXCEPT !.tok = tok, !.ts = ms,
                                                        !.flow = "sync"])
    /\ prompts' = Prompted(c)
    /\ permission' = [permission EXCEPT ![c] = "granted"]
    /\ UNCHANGED <<db, blobs, nextTodoId, nextCommentId, todos, uploading, invs,
                   sends, lastReg, deleted, pair,
                   toasts, unhandled, mounted, subs, asked>>

\* syncToken (lines 286-297): getToken rejected (the permission was refused or the
\* prompt dismissed, or the token service failed); the catch only logs
syncTokenSkipped(c) ==
    /\ calls < MaxCalls
    /\ calls' = calls + 1
    /\ prompts' = Prompted(c)
    /\ IF permission[c] = "default"
       THEN \E p \in {"default", "denied"} :
                permission' = [permission EXCEPT ![c] = p]
       ELSE UNCHANGED permission
    /\ UNCHANGED <<db, blobs, nextTodoId, nextCommentId, todos, uploading, ops, invs,
                   sends, lastReg, deleted, pair, toasts, unhandled, mounted, subs,
                   asked>>

\* what the caller does once await saveTokenToFirestore(token) has settled:
\* enableNotifications shows a notice (lines 237, 240); syncToken only logs (296)
afterSave(o, ok) ==
    IF o.flow = "enable"
    THEN toasts' = showToast(toasts, o.c, IF ok THEN "Notifications enabled!"
                                          ELSE "Failed to enable notifications")
    ELSE UNCHANGED toasts

\* await setDoc(doc(db, "tokens", token), tokenData, { merge: true }) settles
saveTokenToFirestoreWritten(o, ok) ==
    /\ o \in DOMAIN ops /\ o.kind = "saveToken"
    /\ ops' = Settle(ops, o)
    /\ IF ok
       THEN /\ db' = setDocMerge(db, TokenDocRef(o), TokenData(o))
            /\ lastReg' = Put(lastReg, o.tok,
                    [data |-> TokenData(o),
                     n |-> IF o.tok \in DOMAIN lastReg THEN lastReg[o.tok].n + 1 ELSE 1])
            /\ invs' = Dispatch(invs, [kind |-> IF TokenDocRef(o) \in DOMAIN db
                                                THEN "update" ELSE "create",
                                       path |-> TokenDocRef(o),
                                       data |-> TokenData(o)])
       ELSE UNCHANGED <<db, lastReg, invs>>
    /\ afterSave(o, ok)
    /\ UNCHANGED <<blobs, nextTodoId, nextCommentId, todos, uploading, sends,
                   calls, deleted, pair, unhandled, mounted, subs, asked, permission>>

\* ------------------------------------- App: the notification-enablement flow
\* messaging of firebase.ts (lines 20-23): null where the browser has no support
MessagingSupported(c) == TRUE

\* getToken may also resolve with an empty token
NoToken == 0

\* the worker script of the push messages, registered with scope "/chaelri-todo/"
\* (lines 218-221)
MessagingWorker == "/chaelri-todo/firebase-messaging-sw.js"

\* await navigator.serviceWorker.register(...) rejects (lines 218-221, before the
\* try): the rejection leaves enableNotifications, then requestNotificationsIfNeeded
\* (await at line 199, no catch), whose caller does not await it
registerRejected(o) ==
    /\ unhandled' = escapes(unhandled, o.c, "enableNotifications: register rejected")
    /\ UNCHANGED toasts

\* requestNotificationsIfNeeded (lines 191-201) up to the first await of
\* enableNotifications (lines 208-221)
requestNotificationsIfNeededCall(c) ==
    /\ ~asked[c]
    /\ permission[c] = "default"
    /\ calls < MaxCalls
    /\ calls' = calls + 1
    /\ asked' = [asked EXCEPT ![c] = TRUE]
    /\ IF ~MessagingSupported(c)
       THEN /\ toasts' = showToast(toasts, c, "Messaging not supported in this browser")
            /\ UNCHANGED ops
       ELSE /\ NumInFlight < MaxOps
            /\ ops' = Issue(ops, [Call("enable", c) EXCEPT !.pc = "register",
                                                          !.flow = "enable"])
            /\ UNCHANGED toasts
    /\ UNCHANGED <<db, blobs, nextTodoId, nextCommentId, todos, uploading, invs,
                   sends, lastReg, deleted, pair, unhandled, mounted, subs, permission>>

\* await navigator.serviceWorker.register(...) settles
enableNotificationsRegistered(o, ok) ==
    /\ o \in DOMAIN ops /\ o.kind = "enable" /\ o.pc = "register"
    /\ IF ok
       THEN /\ ops' = Advance(ops, o, [o EXCEPT !.pc = "getToken",
                                                !.swReg = MessagingWorker])
            /\ workers' = [workers EXCEPT ![o.c] = @ \cup {MessagingWorker}]
            /\ UNCHANGED <<toasts, unhandled>>
       ELSE /\ ops' = Settle(ops, o)
            /\ registerRejected(o)
            /\ UNCHANGED workers
    /\ UNCHANGED <<db, blobs, nextTodoId, nextCommentId, todos, uploading, invs,
                   sends, calls, lastReg, deleted, pair, mounted, subs, asked,
                   permission>>

\* await getToken(messaging, {vapidKey, serviceWorkerRegistration}) settles (226-241):
\* with a token, saveTokenToFirestore is called; with an empty one the notice is shown
\* at once; a rejection is caught
enableNotificationsToken(o, ok, tok) ==
    /\ o \in DOMAIN ops /\ o.kind = "enable" /\ o.pc = "getToken"
    /\ IF ok
       THEN /\ permission' = [permission EXCEPT ![o.c] = "granted"]
            /\ IF tok # NoToken
               THEN /\ \E ms \in Clock :
                         ops' = Advance(ops, o, [Call("saveToken", o.c) EXCEPT
                                    !.tok = tok, !.ts = ms, !.flow = "enable",
                                    !.swReg = o.swReg])
                    /\ UNCHANGED toasts
               ELSE /\ ops' = Settle(ops, o)
                    /\ toasts' = showToast(toasts, o.c, "Notifications enabled!")
       ELSE /\ ops' = Settle(ops, o)
            /\ toasts' = showToast(toasts, o.c, "Failed to enable notifications")
            /\ IF permission[o.c] = "default"
               THEN \E p \in {"default", "denied"} :
                        permission' = [permission EXCEPT ![o.c] = p]
               ELSE UNCHANGED permission
    /\ prompts' = Prompted(o.c)
    /\ UNCHANGED <<db, blobs, nextTodoId, nextCommentId, todos, uploading, invs,
                   sends, calls, lastReg, deleted, pair, unhandled, mounted, subs,
                   asked>>

\* ------------------------------------------- onTodoCreated (functions/src/index.ts)
RECURSIVE IdsAscending(_)
IdsAscending(S) ==
    IF S = {} THEN <<>>
    ELSE LET m == CHOOSE x \in S : \A y \in S : x <= y
         IN <<m>> \o IdsAscending(S \ {m})

\* only the first document of the collection is read
TokenIds_FirstOnly(d) ==
    LET all == IdsAscending({p[2] : p \in TokenPaths(d)})
    IN IF all = <<>> THEN <<>> ELSE <<Head(all)>>

\* (await collection("tokens").get()).docs.map((doc) => doc.id)
TokenIds(d) == IdsAscending({p[2] : p \in TokenPaths(d)})

NoTokens_Never(tokens) == FALSE

\* if (tokens.length === 0) return
NoTokens(tokens) == Len(tokens) = 0

NotificationTitle == "New Todo Added!"
NoTextPlaceholder == "(no text)"

\* a payload whose body is the document's text as stored, with no placeholder
Payload_RawBody(data, tokens) ==
    IF Truthy(data.imageUrl)
    THEN [title |-> NotificationTitle, body |-> data.text, imageUrl |-> data.imageUrl,
          tokens |-> tokens]
    ELSE [title |-> NotificationTitle, body |-> data.text, tokens |-> tokens]

\* lines 10-11 and 25-56: the multicast message
Payload(data, tokens) ==
    LET text == IF "text" \in DOMAIN data /\ Truthy(data.text)
                THEN data.text ELSE NoTextPlaceholder
        imageUrl == IF "imageUrl" \in DOMAIN data /\ Truthy(data.imageUrl)
                    THEN data.imageUrl ELSE Null
    IN IF Truthy(imageUrl)
       THEN [title |-> NotificationTitle, body |-> text, imageUrl |-> imageUrl,
             tokens |-> tokens]
       ELSE [title |-> NotificationTitle, body |-> text, tokens |-> tokens]

\* lines 9-22: the invocation reads the tokens collection, and returns if it is empty
onTodoCreatedRead(i) ==
    /\ i \in 1..Len(invs) /\ invs[i].pc = "read"
    /\ LET tokens == TokenIds(db)
       IN invs' = [invs EXCEPT ![i].tokens = tokens,
                               ![i].readSet = {p[2] : p \in TokenPaths(db)},
                               ![i].regBefore = DOMAIN lastReg,
                               ![i].pc = IF NoTokens(tokens) THEN "done" ELSE "send"]
    /\ UNCHANGED <<db, blobs, nextTodoId, nextCommentId, todos, uploading, ops,
                   sends, calls, lastReg, deleted, pair,
                   toasts, unhandled, mounted, subs, asked, permission>>

\* lines 24-64: builds the payload and calls sendEachForMulticast once
onTodoCreatedSend(i) ==
    /\ i \in 1..Len(invs) /\ invs[i].pc = "send"
    /\ sends' = Append(sends, [inv |-> i, payload |-> Payload(invs[i].data, invs[i].tokens)])
    /\ invs' = [invs EXCEPT ![i].pc = "done"]
    /\ UNCHANGED <<db, blobs, nextTodoId, nextCommentId, todos, uploading, ops,
                   calls, lastReg, deleted, pair,
                   toasts, unhandled, mounted, subs, asked, permission>>

\* ------------------------------------------------- TodoList: swipe gestures
\* clientX of a touch point
Positions == {0, 100, 200}

\* the swipe distance of handleTouchEnd (TodoList.tsx lines 56-57)
SwipeThreshold == 80

\* handleTouchStart (lines 44-46) on the element of item i: startX of the current
\* render's closure takes the touch's clientX
handleTouchStart(c, i, x) ==
    /\ mounted[c] /\ i \in 1..Len(todos[c])
    /\ touch[c] = NoTouch
    /\ startX' = [startX EXCEPT ![c] = x]
    /\ touch' = [touch EXCEPT ![c] = [id |-> todos[c][i].id, x |-> x]]

\* handleTouchEnd (lines 48-58) as bound by the last render to the element the touch
\* began on (lines 102-109): onLeft is handleDeleteWithAnimation, which calls
\* onDelete(id) (lines 79-86), onRight is onToggleDone(t.id, !!t.done); an element
\* that is no longer rendered has no handler
handleTouchEnd(c, x) ==
    /\ mounted[c] /\ touch[c] # NoTouch
    /\ touch' = [touch EXCEPT ![c] = NoTouch]
    /\ LET diff == x - startX[c]
           here == {i \in 1..Len(todos[c]) : todos[c][i].id = touch[c].id}
       IN IF here # {} /\ diff < -SwipeThreshold
          THEN deleteTodoCall(c, CHOOSE i \in here : TRUE)
          ELSE IF here # {} /\ diff > SwipeThreshold
          THEN toggleDoneCall(c, CHOOSE i \in here : TRUE)
          ELSE UNCHANGED <<db, blobs, nextTodoId, nextCommentId, todos, uploading,
                           ops, invs, sends, calls, lastReg, deleted, pair, toasts,
                           unhandled, mounted, subs, asked, permission>>

\* ---------------------------------------------------------------- Toast
\* removeToast (App.tsx lines 63-65): the list without the toast of that id; ids
\* are random (line 60), so the toast is identified by its place in the list
removeToast(list, i) ==
    [j \in 1..(Len(list) - 1) |-> IF j < i THEN list[j] ELSE list[j + 1]]

\* time passes while toasts are displayed: the timers started by the last run of the
\* Toast effects (Toast.tsx line 17) come one tick closer to their timeout
tick(c) ==
    /\ mounted[c] /\ toasts[c] # <<>>
    /\ sinceRender[c] < ToastTicks
    /\ sinceRender' = [sinceRender EXCEPT ![c] = @ + 1]

\* the timer of toast i fires (Toast.tsx line 17): onClose(toast.id); every toast is
\* shown with the default timeout (App.tsx line 59)
toastTimeout(c, i) ==
    /\ mounted[c] /\ i \in 1..Len(toasts[c])
    /\ sinceRender[c] = ToastTicks
    /\ toasts' = [toasts EXCEPT ![c] = removeToast(@, i)]

\* the toast is clicked (Toast.tsx line 22): onClose(toast.id)
toastClick(c, i) ==
    /\ mounted[c] /\ i \in 1..Len(toasts[c])
    /\ toasts' = [toasts EXCEPT ![c] = removeToast(@, i)]

\* ------------------------------------------------------------- TodoForm
\* the text input's onChange (TodoForm.tsx line 93): setText(e.target.value)
setText(c, raw) ==
    /\ mounted[c]
    /\ form' = [form EXCEPT ![c].text = raw]

\* URL.createObjectURL(resized) (line 63)
ObjectURL(file) == "blob:" \o file

\* handleFileChange (lines 51-65): no file chosen clears file and preview; a chosen
\* file is resized (same name) and stored with its preview URL
handleFileChange(c, f) ==
    /\ mounted[c]
    /\ form' = [form EXCEPT ![c].file = f,
                            ![c].preview = IF f = NoFile THEN Null ELSE ObjectURL(f)]

\* TodoForm's parameters are { onAdd, uploading } (line 41): the name
\* requestNotificationsIfNeeded that handleSubmit calls (line 70) is bound nowhere
\* in the module, and the App passes its function as onBeforeAdd, which is not read
BeforeAddInScope == FALSE

\* handleSubmit (lines 67-84), the submit button being enabled (line 126)
handleSubmit(c) ==
    /\ mounted[c] /\ ~uploading[c]
    /\ IF ~BeforeAddInScope
       THEN /\ unhandled' = escapes(unhandled, c,
                    "handleSubmit: requestNotificationsIfNeeded is not defined")
            /\ UNCHANGED <<db, blobs, nextTodoId, nextCommentId, todos, uploading,
                           ops, invs, sends, calls, lastReg, deleted, pair, toasts,
                           mounted, subs, asked, permission, form>>
       ELSE IF ~Truthy(Trim(form[c].text)) /\ form[c].file = NoFile
       THEN UNCHANGED <<db, blobs, nextTodoId, nextCommentId, todos, uploading,
                        ops, invs, sends, calls, lastReg, deleted, pair, toasts,
                        unhandled, mounted, subs, asked, permission, form>>
       ELSE /\ addTodoCall(c, IF Truthy(Trim(form[c].text))
                              THEN Trim(form[c].text) ELSE Null, form[c].file)
            /\ form' = [form EXCEPT ![c] = EmptyForm]

\* ------------------------------------------------ receiving a push message
\* the message a receiver is handed for a payload of onTodoCreated: the payload's
\* notification block (index.ts lines 28-32, 44-47); the payload has no data block
Message(payload) ==
    [notification |-> [f \in DOMAIN payload \ {"tokens"} |-> payload[f]]]

\* obj.f, undefined when the object has no such property
Prop(obj, f) == IF f \in DOMAIN obj THEN obj[f] ELSE Null

\* payload.data?.f
DataProp(msg, f) == IF "data" \in DOMAIN msg THEN Prop(msg.data, f) ELSE Null

\* the separator of the notice's template literal (App.tsx line 274): a dash
\* between two spaces
Dash == " - "

\* the foreground handler (App.tsx lines 268-275): the notice it shows
onMessage(msg) ==
    LET title == IF Truthy(DataProp(msg, "title"))
                 THEN DataProp(msg, "title") ELSE "New Todo"
        body == IF Truthy(DataProp(msg, "body")) THEN DataProp(msg, "body") ELSE ""
    IN title \o Dash \o body

\* the worker's background handler (firebase-messaging-sw.js lines 22-36): it reads
\* payload.data.title, which throws when the message has no data block, and
\* otherwise calls showNotification
onBackgroundMessage(c, msg) ==
    IF "data" \in DOMAIN msg
    THEN /\ notifications' = [notifications EXCEPT ![c] =
                Append(@, [title |-> Prop(msg.data, "title"),
                           body |-> Prop(msg.data, "body"),
                           icon |-> "/icon-192.png",
                           image |-> Prop(msg.data, "imageUrl")])]
         /\ UNCHANGED unhandled
    ELSE /\ unhandled' = escapes(unhandled, c,
                "onBackgroundMessage: cannot read properties of undefined")
         /\ UNCHANGED notifications

\* the device holds one of the tokens the message was sent to
Holds(c, tokens) ==
    \E j \in 1..Len(tokens) :
        /\ <<"tokens", tokens[j]>> \in DOMAIN db
        /\ db[<<"tokens", tokens[j]>>].userAgent = UserAgent(c)

\* the message of sends[k] reaches device c: with the page in the foreground the
\* App's onMessage callback runs, otherwise the worker's background handler
receive(k, c, foreground) ==
    /\ k \in 1..Len(sends) /\ <<k, c>> \notin delivered
    /\ Holds(c, sends[k].payload.tokens)
    /\ foreground => mounted[c]
    /\ delivered' = delivered \cup {<<k, c>>}
    /\ IF foreground
       THEN /\ toasts' = showToast(toasts, c, onMessage(Message(sends[k].payload)))
            /\ UNCHANGED <<notifications, unhandled>>
       ELSE /\ onBackgroundMessage(c, Message(sends[k].payload))
            /\ UNCHANGED toasts
    /\ UNCHANGED <<db, blobs, nextTodoId, nextCommentId, todos, uploading, ops, invs,
                   sends, calls, lastReg, deleted, pair, mounted, subs, asked,
                   permission>>

\* ------------------------------------------------------------ specification
Outcomes == BOOLEAN     \* an awaited call resolves (TRUE) or rejects (FALSE)

\* React renders the App again after a step that changed its state: TodoList's
\* startX is declared anew (TodoList.tsx line 42) and, removeToast being a new
\* function (App.tsx line 63), every Toast's effect clears its timer and starts
\* another (Toast.tsx lines 16-19)
Rerendered(c) ==
    \/ todos'[c] # todos[c] \/ uploading'[c] # uploading[c] \/ toasts'[c] # toasts[c]
    \/ darkMode'[c] # darkMode[c]
render ==
    /\ sinceRender' = [c \in Clients |-> IF Rerendered(c) THEN 0 ELSE sinceRender[c]]
    /\ startX' = [c \in Clients |-> IF Rerendered(c) THEN 0 ELSE startX[c]]

\* a step of a handler that touches neither the registration state nor the view's own
Quiet == UNCHANGED <<pushVars, viewVars>> /\ render

\* user events and settling promises, one step each
AddTodo ==
    \E c \in Writers, in \in AddInputs : addTodoCall(c, in[1], in[2]) /\ Quiet
AddTodoUploaded == \E o \in DOMAIN ops, ok \in Outcomes : addTodoUploaded(o, ok) /\ Quiet
AddTodoResolved == \E o \in DOMAIN ops, ok \in Outcomes : addTodoResolved(o, ok) /\ Quiet
AddTodoWritten == \E o \in DOMAIN ops, ok \in Outcomes : addTodoWritten(o, ok) /\ Quiet
Snapshot == \E c \in Clients : onSnapshot(c) /\ Quiet
DeleteTodo == \E c \in Writers, i \in 1..MaxTodos : deleteTodoCall(c, i) /\ Quiet
DeleteTodoWritten == \E o \in DOMAIN ops, ok \in Outcomes : deleteTodoWritten(o, ok) /\ Quiet
EditTodo == \E c \in Writers, i \in 1..MaxTodos, raw \in RawInputs : editTodoCall(c, i, raw) /\ Quiet
EditTodoWritten == \E o \in DOMAIN ops, ok \in Outcomes : editTodoWritten(o, ok) /\ Quiet
ToggleDone == \E c \in Writers, i \in 1..MaxTodos : toggleDoneCall(c, i) /\ Quiet
ToggleDoneWritten == \E o \in DOMAIN ops, ok \in Outcomes : toggleDoneWritten(o, ok) /\ Quiet
CommentAdd == \E c \in Writers, i \in 1..MaxTodos, raw \in RawInputs : handleAddCall(c, i, raw) /\ Quiet
CommentAddWritten == \E o \in DOMAIN ops, ok \in Outcomes : handleAddWritten(o, ok) /\ Quiet
CommentDelete ==
    \E c \in Writers, i \in 1..MaxTodos, p \in CommentPaths(db) : handleDeleteCall(c, i, p) /\ Quiet
CommentDeleteWritten == \E o \in DOMAIN ops, ok \in Outcomes : handleDeleteWritten(o, ok) /\ Quiet
SaveToken ==
    \E c \in Clients, tok \in Tokens :
        /\ saveTokenToFirestoreCall(c, tok)
        /\ UNCHANGED <<workers, delivered, notifications, viewVars>> /\ render
SyncSkipped ==
    \E c \in Clients :
        /\ syncTokenSkipped(c)
        /\ UNCHANGED <<workers, delivered, notifications, viewVars>> /\ render
SaveTokenWritten == \E o \in DOMAIN ops, ok \in Outcomes : saveTokenToFirestoreWritten(o, ok) /\ Quiet
RequestNotifications == \E c \in Clients : requestNotificationsIfNeededCall(c) /\ Quiet
EnableRegistered ==
    \E o \in DOMAIN ops, ok \in Outcomes :
        /\ enableNotificationsRegistered(o, ok)
        /\ UNCHANGED <<prompts, delivered, notifications, viewVars>> /\ render
EnableToken ==
    \E o \in DOMAIN ops, ok \in Outcomes, tok \in Tokens \cup {NoToken} :
        /\ enableNotificationsToken(o, ok, tok)
        /\ UNCHANGED <<workers, delivered, notifications, viewVars>> /\ render
LegacyAddTodo ==
    \E c \in Writers, text \in {"", "a"}, file \in {NoFile, "photo.png"} :
        legacyAddTodo(c, text, file) /\ Quiet
Mount == \E c \in Watchers, strict \in BOOLEAN : mountApp(c, strict) /\ UNCHANGED pushVars
ToggleDark ==
    \E c \in Clients : toggleDarkMode(c) /\ UNCHANGED <<pushVars, form, touch>> /\ render
Unmount == \E c \in Watchers : unmountApp(c) /\ Quiet
TriggerRead == \E i \in 1..MaxTodos : onTodoCreatedRead(i) /\ Quiet
TriggerSend == \E i \in 1..MaxTodos : onTodoCreatedSend(i) /\ Quiet
TouchStart ==
    \E c \in Writers, i \in 1..MaxTodos, x \in Positions :
        /\ handleTouchStart(c, i, x)
        /\ UNCHANGED <<db, blobs, nextTodoId, nextCommentId, todos, uploading, ops,
                       invs, sends, calls, lastReg, deleted, pair, toasts, unhandled,
                       mounted, subs, asked, permission>>
        /\ UNCHANGED <<pushVars, form, darkMode, savedDark, sinceRender>>
TouchEnd ==
    \E c \in Writers, x \in Positions :
        /\ handleTouchEnd(c, x)
        /\ UNCHANGED <<pushVars, form, darkMode, savedDark>> /\ render
Tick ==
    \E c \in Clients :
        /\ tick(c)
        /\ UNCHANGED <<db, blobs, nextTodoId, nextCommentId, todos, uploading, ops,
                       invs, sends, calls, lastReg, deleted, pair, toasts, unhandled,
                       mounted, subs, asked, permission>>
        /\ UNCHANGED <<pushVars, viewVars, startX>>
ToastTimeout ==
    \E c \in Clients, i \in 1..MaxCalls :
        /\ toastTimeout(c, i)
        /\ UNCHANGED <<db, blobs, nextTodoId, nextCommentId, todos, uploading, ops,
                       invs, sends, calls, lastReg, deleted, pair, unhandled,
                       mounted, subs, asked, permission>>
        /\ Quiet
ToastClick ==
    \E c \in Clients, i \in 1..MaxCalls :
        /\ toastClick(c, i)
        /\ UNCHANGED <<db, blobs, nextTodoId, nextCommentId, todos, uploading, ops,
                       invs, sends, calls, lastReg, deleted, pair, unhandled,
                       mounted, subs, asked, permission>>
        /\ Quiet
SetText ==
    \E c \in Clients, raw \in RawInputs :
        /\ setText(c, raw)
        /\ UNCHANGED <<db, blobs, nextTodoId, nextCommentId, todos, uploading, ops,
                       invs, sends, calls, lastReg, deleted, pair, toasts, unhandled,
                       mounted, subs, asked, permission>>
        /\ UNCHANGED <<pushVars, darkMode, savedDark, touch>> /\ render
ChooseFile ==
    \E c \in Clients, f \in {NoFile, "photo.png"} :
        /\ handleFileChange(c, f)
        /\ UNCHANGED <<db, blobs, nextTodoId, nextCommentId, todos, uploading, ops,
                       invs, sends, calls, lastReg, deleted, pair, toasts, unhandled,
                       mounted, subs, asked, permission>>
        /\ UNCHANGED <<pushVars, darkMode, savedDark, touch>> /\ render
Submit ==
    \E c \in Clients :
        /\ handleSubmit(c)
        /\ UNCHANGED <<pushVars, darkMode, savedDark, touch>> /\ render
Receive ==
    \E k \in 1..MaxTodos, c \in Clients, foreground \in BOOLEAN :
        /\ receive(k, c, foreground)
        /\ UNCHANGED <<prompts, workers, viewVars>> /\ render

\* the list and its mutations, token registration, and the fan-out function
Next ==
    \/ AddTodo \/ AddTodoUploaded \/ AddTodoResolved \/ AddTodoWritten
    \/ Snapshot
    \/ DeleteTodo \/ DeleteTodoWritten
    \/ EditTodo \/ EditTodoWritten
    \/ ToggleDone \/ ToggleDoneWritten
    \/ CommentAdd \/ CommentAddWritten
    \/ CommentDelete \/ CommentDeleteWritten
    \/ SaveToken \/ SaveTokenWritten
    \/ TriggerRead \/ TriggerSend

Spec == Init /\ [][Next]_vars

\* the list and its mutations, every device's listener live; no registration, no fan-out
NextSync ==
    \/ AddTodo \/ AddTodoUploaded \/ AddTodoResolved \/ AddTodoWritten
    \/ Snapshot
    \/ DeleteTodo \/ DeleteTodoWritten
    \/ EditTodo \/ EditTodoWritten
    \/ ToggleDone \/ ToggleDoneWritten
    \/ CommentAdd \/ CommentAddWritten
    \/ CommentDelete \/ CommentDeleteWritten

SpecSync == Init /\ [][NextSync]_vars

\* registration on every device, creation, and the fan-out function
NextPush ==
    \/ AddTodo \/ AddTodoUploaded \/ AddTodoResolved \/ AddTodoWritten
    \/ SaveToken \/ SaveTokenWritten
    \/ TriggerRead \/ TriggerSend

SpecPush == Init /\ [][NextPush]_vars

\* creation alone, with every device's listener live
NextCreate ==
    \/ AddTodo \/ AddTodoUploaded \/ AddTodoResolved \/ AddTodoWritten
    \/ Snapshot

SpecCreate == Init /\ [][NextCreate]_vars

\* the writing devices alone: every mutation, and their own listeners
SnapshotLocal == \E c \in Writers : onSnapshot(c) /\ Quiet

NextLocal ==
    \/ AddTodo \/ AddTodoUploaded \/ AddTodoResolved \/ AddTodoWritten
    \/ SnapshotLocal
    \/ DeleteTodo \/ DeleteTodoWritten
    \/ EditTodo \/ EditTodoWritten
    \/ ToggleDone \/ ToggleDoneWritten
    \/ CommentAdd \/ CommentAddWritten
    \/ CommentDelete \/ CommentDeleteWritten

SpecLocal == Init /\ [][NextLocal]_vars

\* the notification-enablement flow and the token sync on every device
NextNotify ==
    \/ RequestNotifications \/ EnableRegistered \/ EnableToken
    \/ SaveToken \/ SyncSkipped \/ SaveTokenWritten

SpecNotify == Init /\ [][NextNotify]_vars

\* a device that opens and closes the view while another one creates Todos
NextMount ==
    \/ AddTodo \/ AddTodoUploaded \/ AddTodoResolved \/ AddTodoWritten
    \/ Snapshot
    \/ Mount \/ Unmount

SpecMount == Init /\ [][NextMount]_vars

\* the listener over a store that also holds Todos written by the earlier release
NextListener ==
    \/ LegacyAddTodo
    \/ AddTodo \/ AddTodoUploaded \/ AddTodoResolved \/ AddTodoWritten
    \/ ToggleDone \/ ToggleDoneWritten
    \/ DeleteTodo \/ DeleteTodoWritten
    \/ SnapshotLocal

SpecListener == Init /\ [][NextListener]_vars

\* the toasts of the creating device: shown by addTodo, removed by their timers or
\* by a click, while the dark-mode button renders the App again.  Time passes and a
\* timer that is due fires: both are weakly fair.
NextToast ==
    \/ AddTodo \/ AddTodoUploaded \/ AddTodoResolved \/ AddTodoWritten
    \/ ToggleDark
    \/ Tick \/ ToastTimeout \/ ToastClick

SpecToast == Init /\ [][NextToast]_vars /\ WF_vars(Tick) /\ WF_vars(ToastTimeout)

\* a device that switches the dark mode, closes the view and opens it again, while
\* another one creates Todos
NextDark ==
    \/ AddTodo \/ AddTodoUploaded \/ AddTodoResolved \/ AddTodoWritten
    \/ Snapshot
    \/ ToggleDark
    \/ Mount \/ Unmount

SpecDark == Init /\ [][NextDark]_vars

\* swipes on the list of the device that creates the Todos, its listener live
NextTouch ==
    \/ AddTodo \/ AddTodoUploaded \/ AddTodoResolved \/ AddTodoWritten
    \/ SnapshotLocal
    \/ TouchStart \/ TouchEnd
    \/ DeleteTodoWritten \/ ToggleDoneWritten

SpecTouch == Init /\ [][NextTouch]_vars

\* the add form: typing, choosing a file, submitting
NextForm == SetText \/ ChooseFile \/ Submit

SpecForm == Init /\ [][NextForm]_vars

\* the comments of the Todos a device created and listed
NextComments ==
    \/ AddTodo \/ AddTodoUploaded \/ AddTodoResolved \/ AddTodoWritten
    \/ SnapshotLocal
    \/ CommentAdd \/ CommentAddWritten
    \/ CommentDelete \/ CommentDeleteWritten

SpecComments == Init /\ [][NextComments]_vars

\* creation, registration and the fan-out function, with the receiving devices
NextReceive ==
    \/ AddTodo \/ AddTodoUploaded \/ AddTodoResolved \/ AddTodoWritten
    \/ SaveToken \/ SaveTokenWritten
    \/ TriggerRead \/ TriggerSend
    \/ Receive

SpecReceive == Init /\ [][NextReceive]_vars

\* ======================================================== properties
HasValue(doc, f) == f \in DOMAIN doc /\ doc[f] # Null
Range(seq) == {seq[i] : i \in 1..Len(seq)}
SendsOf(i) == Cardinality({k \in 1..Len(sends) : sends[k].inv = i})
Idle == DOMAIN ops = {}

\* C1: every Todo document in the store has a non-null text or a non-null imageUrl,
\* after any sequence of create, edit, toggle-done and delete operations.
C1_TextOrImage ==
    \A p \in TodoPaths(db) : HasValue(db[p], "text") \/ HasValue(db[p], "imageUrl")

\* an image-only Todo is stored, and a delete and an edit or toggle have run
C1_Witness ==
    /\ \E p \in TodoPaths(db) : db[p].text = "" /\ db[p].imageUrl # Null
    /\ deleted # {}
    /\ calls = MaxCalls /\ Idle

\* C2: after every snapshot delivered to a listener, that client's local list is
\* ordered by createdAt, newest first.
C2_SortedDesc ==
    \A c \in Clients : \A i, j \in 1..Len(todos[c]) :
        i < j => todos[c][i].createdAt >= todos[c][j].createdAt

\* a list of two where the newer createdAt belongs to the document created first
C2_Witness ==
    \E c \in Clients :
        /\ Len(todos[c]) = 2
        /\ todos[c][1].createdAt > todos[c][2].createdAt
        /\ todos[c][1].id < todos[c][2].id

\* C3: two toggle-done operations issued one after the other on a Todo by a client,
\* with no other writer, leave the stored done value as it was before the first.
C3_DoubleToggleRestores ==
    \A id \in 1..MaxTodos :
        (pair[id].stage = 4 /\ <<"todos", id>> \in DOMAIN db)
            => db[<<"todos", id>>].done = pair[id].orig

\* C4: the tokens collection holds exactly one record per registered token value,
\* carrying the metadata of the last committed registration of that token.
C4_TokenUpsert ==
    /\ \A p, q \in TokenPaths(db) : db[p].token = db[q].token => p = q
    /\ \A p \in TokenPaths(db) : db[p].token \in DOMAIN lastReg
    /\ \A t \in DOMAIN lastReg :
         \E p \in TokenPaths(db) :
            /\ db[p].token = t
            /\ \A f \in {"createdAt", "userAgent", "platform", "language", "timeZone",
                         "isMobile"} : db[p][f] = lastReg[t].data[f]

\* a token registered twice, the second time by another device with another createdAt
C4_Witness ==
    \E t \in DOMAIN lastReg :
        /\ lastReg[t].n = 2
        /\ lastReg[t].data.userAgent = UserAgent(2)
        /\ lastReg[t].data.createdAt = 0
        /\ Cardinality(TokenPaths(db)) = 1

C6_DeleteNoCascade ==
    [][\A p \in TodoPaths(db) :
          p \notin DOMAIN db' =>
              \A q \in DOMAIN db \ {p} : q \in DOMAIN db' /\ db'[q] = db[q]]_vars

\* a deleted Todo whose comment is still stored
C6_Witness == \E id \in deleted : CommentsOf(db, id) # {}

\* C7: when the write of a create with non-empty text t and no file succeeds, the
\* todos collection gains exactly one document, with text = t, imageUrl = null and
\* done = false, and that create uploaded no blob.
C7_TextOnlyCreate ==
    [][\A o \in DOMAIN ops :
          (o.kind = "addTodo" /\ o.file = NoFile /\ Truthy(o.text)
              /\ addTodoWritten(o, TRUE))
          => /\ \E p \in TodoPaths(db') \ TodoPaths(db) :
                  /\ TodoPaths(db') = TodoPaths(db) \cup {p}
                  /\ db'[p].text = o.text
                  /\ db'[p].imageUrl = Null
                  /\ db'[p].done = FALSE
             /\ ~o.uploaded
             /\ blobs' = blobs]_vars

\* the store holds a text-only Todo and no blob was ever uploaded
C7_Witness ==
    /\ \E p \in TodoPaths(db) :
          db[p].text = "a" /\ db[p].imageUrl = Null /\ db[p].done = FALSE
    /\ blobs = {}

C9_RecipientsAreTheRead ==
    \A k \in 1..Len(sends) :
        LET inv == invs[sends[k].inv]
            to == sends[k].payload.tokens
        IN /\ Range(to) = inv.readSet
           /\ Len(to) = Cardinality(inv.readSet)
           /\ inv.regBefore \subseteq Range(to)
           /\ SendsOf(sends[k].inv) = 1

\* two invocations read different collections, and a send reached a token that the
\* watching device, which created nothing, registered
C9_Witness ==
    /\ \E i, j \in 1..Len(invs) :
          invs[i].pc = "done" /\ invs[j].pc = "done" /\ invs[i].readSet # invs[j].readSet
    /\ \E k \in 1..Len(sends) : \E t \in Range(sends[k].payload.tokens) :
          db[<<"tokens", t>>].userAgent = UserAgent(2)

\* C10: every multicast send comes from an invocation started by the creation of a
\* Todo document; there are no more sends than Todos created.
C10_SendsOnlyOnCreate ==
    /\ \A k \in 1..Len(sends) :
          LET e == invs[sends[k].inv].event
          IN e.kind = "create" /\ Len(e.path) = 2 /\ e.path[1] = "todos"
    /\ Len(sends) <= nextTodoId - 1

\* one Todo was created and notified, then toggled by a write that sent nothing
C10_Witness ==
    /\ Len(sends) = 1
    /\ \E p \in TodoPaths(db) : db[p].done = TRUE
    /\ TokenPaths(db) # {}
    /\ Idle /\ \A i \in 1..Len(invs) : invs[i].pc = "done"

\* C11: every payload sent has the fixed title, a body equal to the created Todo's
\* text when that text is non-empty and to "(no text)" when it is empty or absent,
\* and an imageUrl field exactly when the Todo's imageUrl is non-empty, equal to it.
C11_PayloadFields ==
    \A k \in 1..Len(sends) :
        LET d == invs[sends[k].inv].data
            m == sends[k].payload
            hasText == "text" \in DOMAIN d /\ d.text # Null /\ d.text # ""
            hasImage == "imageUrl" \in DOMAIN d /\ d.imageUrl # Null /\ d.imageUrl # ""
        IN /\ m.title = "New Todo Added!"
           /\ m.body = IF hasText THEN d.text ELSE "(no text)"
           /\ ("imageUrl" \in DOMAIN m) = hasImage
           /\ hasImage => m.imageUrl = d.imageUrl

\* two sends: one for an image-only Todo (placeholder body, image carried), one for a
\* text-only Todo (its text as body, no image field)
C11_Witness ==
    \E j, k \in 1..Len(sends) :
        /\ sends[j].payload.body = "(no text)" /\ "imageUrl" \in DOMAIN sends[j].payload
        /\ sends[k].payload.body = "a" /\ "imageUrl" \notin DOMAIN sends[k].payload

\* the blob paths `todos/${Date.now()}-${file.name}` can take for a file name
ExpectedBlobPaths(name) == {"todos/" \o ToString(ms) \o "-" \o name : ms \in Clock}

\* C12: when the write of a create with no text and a file f succeeds, that create has
\* uploaded a blob at todos/<timestamp>-<f.name>, and the todos collection gains
\* exactly one document, with text null or empty, imageUrl the download URL of that
\* blob, and done = false.
C12_FileOnlyCreate ==
    [][\A o \in DOMAIN ops :
          (o.kind = "addTodo" /\ o.file # NoFile /\ ~Truthy(o.text)
              /\ addTodoWritten(o, TRUE))
          => /\ o.uploaded
             /\ o.path \in ExpectedBlobPaths(o.file)
             /\ o.path \in blobs
             /\ \E p \in TodoPaths(db') \ TodoPaths(db) :
                  /\ TodoPaths(db') = TodoPaths(db) \cup {p}
                  /\ db'[p].text \in {Null, ""}
                  /\ db'[p].imageUrl = "https://storage/" \o o.path
                  /\ db'[p].done = FALSE]_vars

\* an image-only Todo is stored with the URL of the one blob that was uploaded
C12_Witness ==
    \E p \in TodoPaths(db) : \E b \in blobs :
        /\ db[p].text = "" /\ db[p].done = FALSE
        /\ db[p].imageUrl = "https://storage/" \o b
        /\ blobs = {b}

\* C13: a call of addTodo with no text (null or empty) and no file starts no upload
\* and no document write, shows a message to the user, and leaves the store, the blob
\* store, the local list and the uploading flag unchanged.
C13_RejectedCreate ==
    [][\A c \in Clients : \A text \in {Null, ""} :
          addTodoCall(c, text, NoFile)
          => /\ ops' = ops
             /\ db' = db /\ blobs' = blobs
             /\ todos' = todos /\ uploading' = uploading
             /\ toasts'[c] = Append(toasts[c], "Please add text or an image.")]_vars

\* both rejected calls were made: two messages, nothing stored, nothing in flight
C13_Witness ==
    \E c \in Clients :
        /\ Len(toasts[c]) = 2
        /\ \A i \in 1..2 : toasts[c][i] = "Please add text or an image."
        /\ db = EmptyDb /\ blobs = {} /\ Idle /\ ~uploading[c] /\ todos[c] = <<>>

\* C14: in a create with a file, the document write happens only for a create whose
\* upload and URL resolution have succeeded, and it carries the resolved URL; when
\* the upload or the URL resolution fails, the create ends there: the store is left
\* unchanged and the create has no further step.
C14_UploadBeforeWrite ==
    [][\A o \in DOMAIN ops :
          /\ (o.kind = "addTodo" /\ o.file # NoFile
                 /\ (addTodoWritten(o, TRUE) \/ addTodoWritten(o, FALSE)))
             => /\ o.uploaded /\ o.path \in blobs
                /\ o.imageUrl = "https://storage/" \o o.path
          /\ (addTodoUploaded(o, FALSE) \/ addTodoResolved(o, FALSE))
             => /\ db' = db
                /\ ops' = Settle(ops, o)]_vars

\* a create with a file has ended in failure after its upload: the blob is stored,
\* the failure was reported and no document exists
C14_Witness ==
    /\ blobs # {} /\ db = EmptyDb /\ Idle /\ calls = 1
    /\ \E c \in Clients : toasts[c] = <<"Failed to add todo.">>

\* C15 (as stated): on every device the uploading flag is true exactly in the states
\* in which at least one of its creates is in flight (upload, URL resolution or
\* document write pending), overlapping creates included.
C15_UploadingTracksCreates ==
    \A c \in Clients :
        uploading[c] = (\E o \in DOMAIN ops : o.kind = "addTodo" /\ o.c = c)

\* C16: a device's local list changes only in a step that delivers a snapshot: the
\* new list is the snapshot's, and no call is issued or settled and no document is
\* written in that step; so issuing a mutation or settling it, with success or with
\* failure, leaves the list as it was.
C16_ListChangesOnlyOnSnapshot ==
    [][\A c \in Clients :
          todos'[c] # todos[c]
          => /\ ops' = ops /\ db' = db /\ calls' = calls
             /\ Len(todos'[c]) = Len(TodosQuery(db))
             /\ \A i \in 1..Len(todos'[c]) : todos'[c][i].id = TodosQuery(db)[i][2]]_vars

\* a delete and an edit of a listed Todo have failed; the list still shows the Todo
C16_Witness ==
    \E c \in Clients :
        /\ Len(todos[c]) = 1 /\ Idle
        /\ \E i, j \in 1..Len(toasts[c]) :
              toasts[c][i] = "Failed to delete" /\ toasts[c][j] = "Failed to update."

\* C17 (as stated): whenever the store write of a mutation (create, edit, toggle,
\* delete, add comment, delete comment) fails, that step shows one more notice on the
\* device, lets no error escape unhandled, ends the call (no retry) and writes nothing.
C17_FailedWriteReported ==
    [][\A o \in DOMAIN ops :
          (\/ addTodoWritten(o, FALSE) \/ deleteTodoWritten(o, FALSE)
           \/ editTodoWritten(o, FALSE) \/ toggleDoneWritten(o, FALSE)
           \/ handleAddWritten(o, FALSE) \/ handleDeleteWritten(o, FALSE))
          => /\ Len(toasts'[o.c]) = Len(toasts[o.c]) + 1
             /\ unhandled' = unhandled
             /\ ops' = Settle(ops, o)
             /\ db' = db]_vars

\* C18 (as stated): when a step of the notification-enablement flow fails (worker
\* registration, token fetch or token record save), the failure is caught: no error
\* escapes unhandled, the call ends, and the store holds no new token record.
C18_FlowFailuresCaught ==
    [][\A o \in DOMAIN ops :
          (\/ enableNotificationsRegistered(o, FALSE)
           \/ enableNotificationsToken(o, FALSE, NoToken)
           \/ saveTokenToFirestoreWritten(o, FALSE))
          => /\ unhandled' = unhandled
             /\ ops' = Settle(ops, o)
             /\ db' = db]_vars

\* C19: after every step, a device whose App view is mounted has exactly one open
\* subscription to the todos query and a device whose view was torn down has none;
\* and the local list of a device never changes in a step that leaves its view torn
\* down (no snapshot is applied after teardown).
C19_OneSubscriptionWhileMounted ==
    [][\A c \in Clients :
          /\ subs'[c] = IF mounted'[c] THEN 1 ELSE 0
          /\ todos'[c] # todos[c] => mounted'[c]]_vars

\* a view that was torn down while a Todo existed that its list never received:
\* no subscription is open and the stale (empty) list was left alone
C19_Witness ==
    \E c \in Clients :
        /\ ~mounted[c] /\ subs[c] = 0
        /\ todos[c] = <<>> /\ TodoPaths(db) # {}

\* C20: a step that changes a device's local list leaves it with exactly one item per
\* document of the snapshot, in the snapshot's order, whatever the list held before;
\* item i has the id of document i, text = the document's text or null if it has
\* none, imageUrl = the document's imageUrl or null if it has none, and done = the
\* document's done or false if it has none.
C20_WholesaleReplace ==
    [][\A c \in Clients :
          todos'[c] # todos[c]
          => LET docs == TodosQuery(db)
             IN /\ Len(todos'[c]) = Len(docs)
                /\ \A i \in 1..Len(docs) :
                      LET item == todos'[c][i]
                          doc == db[docs[i]]
                      IN /\ DOMAIN item = {"id", "text", "imageUrl", "createdAt", "done"}
                         /\ item.id = docs[i][2]
                         /\ item.text = IF "text" \in DOMAIN doc THEN doc.text ELSE Null
                         /\ item.imageUrl = IF "imageUrl" \in DOMAIN doc
                                            THEN doc.imageUrl ELSE Null
                         /\ item.done = IF "done" \in DOMAIN doc
                                        THEN doc.done ELSE FALSE]_vars

\* the list holds a Todo written without a done field, shown as not done, next to a
\* Todo whose stored done is true
C20_Witness ==
    \E c \in Clients : \E i, j \in 1..Len(todos[c]) :
        /\ <<"todos", todos[c][i].id>> \in DOMAIN db
        /\ "done" \notin DOMAIN db[<<"todos", todos[c][i].id>>]
        /\ todos[c][i].done = FALSE
        /\ <<"todos", todos[c][j].id>> \in DOMAIN db
        /\ "done" \in DOMAIN db[<<"todos", todos[c][j].id>>]
        /\ db[<<"todos", todos[c][j].id>>].done = TRUE
        /\ todos[c][j].done = TRUE

\* C21: the permission request is made automatically at most once per device: a
\* device that was prompted, whatever the answer, is not prompted again, on that
\* load or on a later one, and in particular not once it holds the askedNotifications
\* marker.
C21_PromptedAtMostOnce ==
    \A c \in Clients : prompts[c] <= 1

\* C22: whenever a token has been obtained on a device, the messaging worker script
\* is registered on that device and the token request was scoped to that
\* registration.
C22_TokenScopedToWorker ==
    \A o \in DOMAIN ops :
        o.kind = "saveToken"
        => MessagingWorker \in workers[o.c] /\ o.swReg = MessagingWorker

\* C23: creation times follow the order in which the writes were committed to the
\* store (the auto ids count the commits): a Todo committed before another one never
\* carries a later createdAt.
C23_CreatedAtFollowsCommit ==
    \A p, q \in TodoPaths(db) :
        p[2] < q[2] => db[p].createdAt <= db[q].createdAt

\* C24: a device that receives the message of a send shows what the payload carries:
\* in the foreground a notice made of the payload's title and body, in the
\* background a notification with the payload's title, body and image.
C24_ReceiversShowPayload ==
    [][\A k \in 1..Len(sends), c \in Clients :
          (<<k, c>> \in delivered' /\ <<k, c>> \notin delivered)
          => LET p == sends[k].payload
             IN \/ toasts'[c] = Append(toasts[c], p.title \o Dash \o p.body)
                \/ /\ Len(notifications'[c]) = Len(notifications[c]) + 1
                   /\ LET n == notifications'[c][Len(notifications'[c])]
                      IN /\ n.title = p.title
                         /\ n.body = p.body
                         /\ n.image = Prop(p, "imageUrl")]_vars

\* C25: every comment stored has a text that is non-empty and carries no surrounding
\* whitespace; handleAdd on a blank input (empty or whitespace only) starts no write;
\* on any other input the write it starts carries the trimmed input, and the comment
\* document created by that write has exactly that text.
C25_CommentTextTrimmed ==
    [][/\ \A p \in CommentPaths(db') : db'[p].text \notin {"", " ", " b"}
       /\ \A c \in Clients, i \in 1..MaxTodos :
             /\ \A raw \in {"", " "} :
                   handleAddCall(c, i, raw) => ops' = ops /\ db' = db
             /\ \A raw \in {"b", " b"} :
                   handleAddCall(c, i, raw)
                   => \A o \in DOMAIN ops' :
                         (o \notin DOMAIN ops \/ ops'[o] > ops[o]) => o.text = "b"
       /\ \A o \in DOMAIN ops :
             handleAddWritten(o, TRUE)
             => \A p \in CommentPaths(db') \ CommentPaths(db) :
                   db'[p].text = o.text]_vars

\* a comment was written and stored with its trimmed text
C25_Witness ==
    /\ \E p \in CommentPaths(db) : db[p].text = "b"
    /\ Idle

\* C26: a submit of the form holding a non-blank text or a file calls addTodo once
\* with the trimmed text (null when blank) and the file, leaves text, file and
\* preview cleared, and lets no error escape the handler.
C26_SubmitAddsOnce ==
    [][\A c \in Clients :
          (handleSubmit(c)
              /\ (Truthy(Trim(form[c].text)) \/ form[c].file # NoFile))
          => /\ addTodoCall(c, IF Truthy(Trim(form[c].text))
                                THEN Trim(form[c].text) ELSE Null, form[c].file)
             /\ form'[c] = EmptyForm
             /\ unhandled' = unhandled]_vars

\* C27: every toast shown is eventually removed: a device that displays toasts
\* eventually displays none, whatever other state updates render the App meanwhile.
C27_ToastEventuallyRemoved ==
    \A c \in Clients : (toasts[c] # <<>>) ~> (toasts[c] = <<>>)

\* C28: the stored dark-mode preference survives a load: when the view is mounted on
\* a device whose stored preference is "true", the mount effects leave darkMode true
\* and the stored preference "true"; when it is "false", they leave darkMode false.
C28_DarkModeRoundTrip ==
    [][\A c \in Clients :
          (~mounted[c] /\ mounted'[c])
          => IF savedDark[c] = "true"
             THEN darkMode'[c] /\ savedDark'[c] = "true"
             ELSE ~darkMode'[c]]_vars

\* C29: the notice "Notifications enabled!" appears only in the step in which the
\* token record of that enablement flow has been written to the store: a token was
\* obtained and its save succeeded.
C29_EnabledOnlyAfterSave ==
    [][\A c \in Clients :
          (/\ Len(toasts'[c]) = Len(toasts[c]) + 1
           /\ toasts'[c][Len(toasts'[c])] = "Notifications enabled!")
          => \E o \in DOMAIN ops :
                /\ o.kind = "saveToken" /\ o.c = c /\ o.flow = "enable"
                /\ saveTokenToFirestoreWritten(o, TRUE)]_vars

\* C30: the end of a touch gesture starts a delete exactly when the finger ended
\* more than 80 to the left of where that same gesture began, starts a toggle
\* exactly when it ended more than 80 to the right, and starts neither otherwise,
\* whatever renders happened between the start and the end of the gesture.
C30_SwipeUsesOwnStart ==
    [][\A c \in Clients, x \in Positions :
          handleTouchEnd(c, x)
          => LET moved == x - touch[c].x
                 started(kind) ==
                     \E o \in DOMAIN ops' :
                         /\ o.kind = kind /\ o.c = c
                         /\ (o \notin DOMAIN ops \/ ops'[o] > ops[o])
             IN /\ started("deleteTodo") => moved < -80
                /\ started("toggleDone") => moved > 80
                /\ (moved >= -80 /\ moved <= 80) => ops' = ops]_vars

====
